---- MODULE Spec2Model ----
(***************************************************************************)
(* The settlement engine of Wola Events: contract EventManager             *)
(* (src/packages/hardhat/contracts/MockUSDC.sol, lines 37-702) together    *)
(* with the ERC20 token it holds deposits and bonds in.                    *)
(*                                                                         *)
(* Every external function of the contract is one action.  A call that     *)
(* reverts leaves no trace on chain, so a reverting call is a call whose   *)
(* guard is false: the action is not enabled.  The guards are the          *)
(* conjunction of the function's require statements, of the checked        *)
(* arithmetic that can revert, and of the token transfer succeeding.       *)
(*                                                                         *)
(* Amounts are counted in units of 10^17 base units of the token, so the   *)
(* constructor's 1e18 and 10e18 are 10 and 100.  Times are in seconds.     *)
(* The description string of an event is not modelled: no code reads it.   *)
(***************************************************************************)
EXTENDS Integers, FiniteSets, Sequences, TLC

----------------------------------------------------------------------------
(* Identities *)

Owner == "owner"
ZeroAddr == "0x0"
Engine == "engine"
Users == {"owner", "alice", "bob"}
Addrs == Users \cup {ZeroAddr}

\* who the model lets create events, register and open accounts
Organizers == {"alice"}
Registrants == {"alice", "bob"}
AccountHolders == Organizers \cup Registrants

----------------------------------------------------------------------------
(* Program constants *)

Hour == 3600
COMPLETION_DEADLINE == 86400
DefaultDeposit == 10
DefaultBond == 100
DefaultMinAttendanceRatio == 3000
DefaultPolicy ==
    [fullRefundHours |-> 24, partialRefundHours |-> 2,
     partialRefundPercent |-> 50, attendeeSharePercent |-> 50]

----------------------------------------------------------------------------
(* Bounds of the model *)

MaxEvents == 1
MaxCapacity == 2
InitialTokens == 130

EventIds == 1..MaxEvents
Genesis == 30 * Hour
StartTimes == {Genesis + 26 * Hour}
EndTimes == {Genesis + 27 * Hour}
Capacities == {1, MaxCapacity}
Ratios == {3000, 6000, 10000}
\* arguments the owner passes to updatePolicy (150 is one it must reject)
PolicyHours == {0, 12, 26}
PolicyPercents == {0, 50, 100, 150}
PolicyShares == {50}
\* attendee shares the owner passes to updatePolicy (150 is one it must reject)
AttendeeShares == {0, 100, 150}
\* inputs of the refund calculator
RefundStartTimes == {Genesis + 14 * Hour, Genesis + 26 * Hour}
RefundAmounts == {7, DefaultDeposit, DefaultBond}
TimePoints ==
    {Genesis, Genesis + 14 * Hour, Genesis + 25 * Hour, Genesis + 26 * Hour,
     Genesis + 27 * Hour, Genesis + 51 * Hour}

----------------------------------------------------------------------------
(* State *)

VARIABLES
    now,                    \* block.timestamp
    tokenBalance,           \* the ERC20 ledger: users and the engine
    attendeeDepositAmount,
    organizerBondAmount,
    minAttendanceRatio,
    policy,
    isRegisteredUser,
    balances,
    events,
    nextEventId,
    last,                   \* the call that produced this state, as emitted
    emitted,                \* the notifications emitted by that call, in order
    claimCount,             \* history: successful claimPayout calls
    refunded,               \* history: credited by cancelRegistration
    claimed,                \* history: credited by claimPayout
    releaseCount,           \* history: successful cancelEvent/completeEvent
    sweepCount,             \* history: no-show sweeps applied to an event
    totalDebited,           \* history: taken by transferFrom
    totalWithdrawn          \* history: paid by transfer

config == <<attendeeDepositAmount, organizerBondAmount, minAttendanceRatio, policy>>
history == <<claimCount, refunded, claimed, releaseCount, sweepCount, totalDebited,
            totalWithdrawn>>
vars == <<now, tokenBalance, config, isRegisteredUser, balances, events,
          nextEventId, last, emitted, history>>

NoRegistration == [status |-> "None", exists |-> FALSE]

ZeroEvent ==
    [organizer |-> ZeroAddr, startTime |-> 0, endTime |-> 0, capacity |-> 0,
     status |-> "Published", published |-> FALSE, bondReleased |-> FALSE,
     checkInClosed |-> FALSE, confirmedCount |-> 0, attendedCount |-> 0,
     forfeitPool |-> 0, rewardPerAttendee |-> 0,
     registrations |-> [u \in Users |-> NoRegistration],
     rewardsClaimed |-> [u \in Users |-> FALSE]]

Call(op, caller, id, who, amount) ==
    [op |-> op, caller |-> caller, id |-> id, who |-> who, amount |-> amount]

\* an emitted event with its indexed arguments
Notice(kind, id, who, amount) == [kind |-> kind, id |-> id, who |-> who, amount |-> amount]

Min(a, b) == IF a < b THEN a ELSE b

Init ==
    /\ now = Genesis
    /\ tokenBalance = [a \in Users \cup {Engine} |-> IF a = Engine THEN 0 ELSE InitialTokens]
    /\ attendeeDepositAmount = DefaultDeposit
    /\ organizerBondAmount = DefaultBond
    /\ minAttendanceRatio = DefaultMinAttendanceRatio
    /\ policy = DefaultPolicy
    /\ isRegisteredUser = [u \in Users |-> FALSE]
    /\ balances = [a \in Addrs |-> 0]
    /\ events = [e \in EventIds |-> ZeroEvent]
    /\ nextEventId = 1
    /\ last = Call("constructor", Owner, 0, Owner, 0)
    /\ emitted = <<>>
    /\ claimCount = [e \in EventIds |-> [u \in Users |-> 0]]
    /\ refunded = [e \in EventIds |-> [u \in Users |-> 0]]
    /\ claimed = [e \in EventIds |-> [u \in Users |-> 0]]
    /\ releaseCount = [e \in EventIds |-> 0]
    /\ sweepCount = [e \in EventIds |-> 0]
    /\ totalDebited = 0
    /\ totalWithdrawn = 0

----------------------------------------------------------------------------
(* Internal helpers *)

\* Refund with the tiers starting strictly inside their windows
RefundExclusive(startTime, t, pol, depositAmount) ==
    LET timeUntilStart == IF startTime > t THEN startTime - t ELSE 0
    IN  IF timeUntilStart > pol.fullRefundHours * Hour
          THEN depositAmount
        ELSE IF timeUntilStart > pol.partialRefundHours * Hour
          THEN (depositAmount * pol.partialRefundPercent) \div 100
        ELSE 0

\* _calculateRefund, as a function of its inputs
Refund(startTime, t, pol, depositAmount) ==
    LET timeUntilStart == IF startTime > t THEN startTime - t ELSE 0
    IN  IF timeUntilStart >= pol.fullRefundHours * Hour
          THEN depositAmount
        ELSE IF timeUntilStart >= pol.partialRefundHours * Hour
          THEN (depositAmount * pol.partialRefundPercent) \div 100
        ELSE 0

CalculateRefund(evt, depositAmount) ==
    Refund(evt.startTime, now, policy, depositAmount)

\* _processNoShowForfeits: the forfeit pool after the sweep
ProcessNoShowForfeits(evt) ==
    LET noShows == evt.confirmedCount - evt.attendedCount
    IN  IF noShows > 0
          THEN evt.forfeitPool + noShows * attendeeDepositAmount
          ELSE evt.forfeitPool

\* Required with the quotient rounded up instead of down
RequiredRoundedUp(confirmed, ratio) == (confirmed * ratio + 9999) \div 10000

\* completeEvent: required = floor(confirmed * ratio / 10000)
Required(confirmed, ratio) == (confirmed * ratio) \div 10000

\* completeEvent: the penalty taken from the bond
BondPenalty(bond, confirmed, attended, ratio) ==
    LET required == Required(confirmed, ratio)
    IN  IF required = 0 \/ attended >= required
          THEN 0
          ELSE (bond * (required - attended)) \div required

\* OrganizerShare taking the attendees' percentage for the organizer
OrganizerShareSwapped(pool, pol) ==
    IF pool = 0 THEN 0 ELSE (pool * pol.attendeeSharePercent) \div 100

\* _distributeForfeitsByPolicy: the organizer's share of a pool
OrganizerShare(pool, pol) ==
    IF pool = 0 THEN 0 ELSE (pool * (100 - pol.attendeeSharePercent)) \div 100

\* _distributeForfeitsByPolicy: rewardPerAttendee after distribution
DistributedReward(evt, pol) ==
    IF evt.forfeitPool = 0 THEN evt.rewardPerAttendee
    ELSE LET attendeeShare == evt.forfeitPool - OrganizerShare(evt.forfeitPool, pol)
         IN  IF evt.attendedCount > 0 /\ attendeeShare > 0
               THEN attendeeShare \div evt.attendedCount
               ELSE 0

\* GetClaimablePayout returning the deposit to the no-shows of a Completed event
GetClaimablePayoutPaysNoShow(e, p) ==
    LET evt == events[e]
        reg == evt.registrations[p]
    IN  IF \/ (evt.status # "Completed" /\ evt.status # "Canceled")
           \/ ~reg.exists
           \/ evt.rewardsClaimed[p]
          THEN 0
        ELSE IF reg.status = "Attended"
          THEN attendeeDepositAmount + evt.rewardPerAttendee
        ELSE attendeeDepositAmount
               + (IF evt.status = "Canceled" THEN evt.rewardPerAttendee ELSE 0)

\* GetClaimablePayout paying only the Confirmed registrants of a Canceled event
GetClaimablePayoutSkipsCancellers(e, p) ==
    LET evt == events[e]
        reg == evt.registrations[p]
    IN  IF \/ (evt.status # "Completed" /\ evt.status # "Canceled")
           \/ ~reg.exists
           \/ evt.rewardsClaimed[p]
          THEN 0
        ELSE IF reg.status = "Attended"
          THEN attendeeDepositAmount + evt.rewardPerAttendee
        ELSE IF evt.status = "Canceled" /\ reg.status = "Confirmed"
          THEN attendeeDepositAmount + evt.rewardPerAttendee
        ELSE 0

\* GetClaimablePayout without the share of the organizer's penalty
GetClaimablePayoutNoPenaltyShare(e, p) ==
    LET evt == events[e]
        reg == evt.registrations[p]
    IN  IF \/ (evt.status # "Completed" /\ evt.status # "Canceled")
           \/ ~reg.exists
           \/ evt.rewardsClaimed[p]
          THEN 0
        ELSE IF reg.status = "Attended"
          THEN attendeeDepositAmount + evt.rewardPerAttendee
        ELSE IF evt.status = "Canceled"
          THEN attendeeDepositAmount
        ELSE 0

\* GetClaimablePayout without the validity test that precedes the amounts
GetClaimablePayoutNoValidityCheck(e, p) ==
    LET evt == events[e]
        reg == evt.registrations[p]
    IN  IF reg.status = "Attended"
          THEN attendeeDepositAmount + evt.rewardPerAttendee
        ELSE IF evt.status = "Canceled"
          THEN attendeeDepositAmount
               + (IF reg.status \in {"Confirmed", "CanceledByParticipant"}
                    THEN evt.rewardPerAttendee ELSE 0)
        ELSE 0

\* _getClaimablePayout
GetClaimablePayout(e, p) ==
    LET evt == events[e]
        reg == evt.registrations[p]
    IN  IF \/ (evt.status # "Completed" /\ evt.status # "Canceled")
           \/ ~reg.exists
           \/ evt.rewardsClaimed[p]
          THEN 0
        ELSE IF reg.status = "Attended"
          THEN attendeeDepositAmount + evt.rewardPerAttendee
        ELSE IF evt.status = "Canceled"
          THEN attendeeDepositAmount
               + (IF reg.status \in {"Confirmed", "CanceledByParticipant"}
                    THEN evt.rewardPerAttendee ELSE 0)
        ELSE 0

\* getClaimablePayout, the external view
GetClaimablePayoutView(e, p) == GetClaimablePayout(e, p)

\* ERC20 transferFrom(payer, engine, amount) succeeds (allowance is granted)
CanDebit(payer, amount) == tokenBalance[payer] >= amount

\* ERC20 transfer(payee, amount) by the engine succeeds
CanPay(amount) == tokenBalance[Engine] >= amount

Debit(payer, amount) ==
    /\ tokenBalance' = [tokenBalance EXCEPT ![payer] = @ - amount,
                                            ![Engine] = @ + amount]
    /\ totalDebited' = totalDebited + amount

\* getAvailableActions(eventData, userAddress, userRegistrationStatus).canClaimPayout
\* of the web client, fed with getEvent and getRegistration of the engine
CanClaimPayout(e, u) ==
    LET isCanceled == events[e].status = "Canceled"
        isCompleted == events[e].status = "Completed"
        isUserRegistered == events[e].registrations[u].status = "Confirmed"
    IN  isUserRegistered /\ (isCompleted \/ isCanceled)

----------------------------------------------------------------------------
(* The clock *)

Tick ==
    /\ \E t \in TimePoints : t > now /\ now' = t
    /\ last' = Call("tick", ZeroAddr, 0, ZeroAddr, 0)
    /\ emitted' = <<>>
    /\ UNCHANGED <<tokenBalance, config, isRegisteredUser, balances, events,
                   nextEventId, history>>

----------------------------------------------------------------------------
(* Admin functions *)

SetAttendeeDepositAmountGuard(c, deposit) == c = Owner

SetAttendeeDepositAmount(c, deposit) ==
    /\ SetAttendeeDepositAmountGuard(c, deposit)
    /\ attendeeDepositAmount' = deposit
    /\ last' = Call("setAttendeeDepositAmount", c, 0, c, deposit)
    /\ emitted' = <<>>
    /\ UNCHANGED <<now, tokenBalance, organizerBondAmount, minAttendanceRatio,
                   policy, isRegisteredUser, balances, events, nextEventId, history>>

SetOrganizerBondAmountGuard(c, bond) == c = Owner

SetOrganizerBondAmount(c, bond) ==
    /\ SetOrganizerBondAmountGuard(c, bond)
    /\ organizerBondAmount' = bond
    /\ last' = Call("setOrganizerBondAmount", c, 0, c, bond)
    /\ emitted' = <<>>
    /\ UNCHANGED <<now, tokenBalance, attendeeDepositAmount, minAttendanceRatio,
                   policy, isRegisteredUser, balances, events, nextEventId, history>>

SetMinAttendanceRatioGuard(c, ratio) ==
    /\ c = Owner
    /\ ratio <= 10000

SetMinAttendanceRatio(c, ratio) ==
    /\ SetMinAttendanceRatioGuard(c, ratio)
    /\ minAttendanceRatio' = ratio
    /\ last' = Call("setMinAttendanceRatio", c, 0, c, ratio)
    /\ emitted' = <<>>
    /\ UNCHANGED <<now, tokenBalance, attendeeDepositAmount, organizerBondAmount,
                   policy, isRegisteredUser, balances, events, nextEventId, history>>

\* UpdatePolicyGuard without the partial-refund-percent requirement
UpdatePolicyGuardNoPercentCheck(c, fullRefundHours, partialRefundHours, partialRefundPercent, attendeeSharePercent) ==
    /\ c = Owner
    /\ attendeeSharePercent <= 100
    /\ fullRefundHours >= partialRefundHours

\* UpdatePolicyGuard without the requirement on the two refund windows
UpdatePolicyGuardNoWindowCheck(c, fullRefundHours, partialRefundHours, partialRefundPercent, attendeeSharePercent) ==
    /\ c = Owner
    /\ partialRefundPercent <= 100
    /\ attendeeSharePercent <= 100

UpdatePolicyGuard(c, fullRefundHours, partialRefundHours, partialRefundPercent, attendeeSharePercent) ==
    /\ c = Owner
    /\ partialRefundPercent <= 100
    /\ attendeeSharePercent <= 100
    /\ fullRefundHours >= partialRefundHours

UpdatePolicy(c, fullRefundHours, partialRefundHours, partialRefundPercent, attendeeSharePercent) ==
    /\ UpdatePolicyGuard(c, fullRefundHours, partialRefundHours,
                         partialRefundPercent, attendeeSharePercent)
    /\ policy' = [fullRefundHours |-> fullRefundHours,
                  partialRefundHours |-> partialRefundHours,
                  partialRefundPercent |-> partialRefundPercent,
                  attendeeSharePercent |-> attendeeSharePercent]
    /\ last' = Call("updatePolicy", c, 0, c, 0)
    /\ emitted' = <<Notice("PolicyUpdated", 0, ZeroAddr, 0)>>
    /\ UNCHANGED <<now, tokenBalance, attendeeDepositAmount, organizerBondAmount,
                   minAttendanceRatio, isRegisteredUser, balances, events,
                   nextEventId, history>>

----------------------------------------------------------------------------
(* Account management *)

CreateAccountGuard(c) == ~isRegisteredUser[c]

CreateAccount(c) ==
    /\ CreateAccountGuard(c)
    /\ isRegisteredUser' = [isRegisteredUser EXCEPT ![c] = TRUE]
    /\ last' = Call("createAccount", c, 0, c, 0)
    /\ emitted' = <<Notice("AccountCreated", 0, c, 0)>>
    /\ UNCHANGED <<now, tokenBalance, config, balances, events, nextEventId, history>>

\* WithdrawGuard without the non-zero-balance requirement
WithdrawGuardNoBalanceCheck(c) == CanPay(balances[c])

\* WithdrawGuard with a token that lets the engine pay what it does not hold
WithdrawGuardNoTransferCheck(c) == balances[c] > 0

WithdrawGuard(c) ==
    /\ balances[c] > 0
    /\ CanPay(balances[c])

Withdraw(c) ==
    /\ WithdrawGuard(c)
    /\ balances' = [balances EXCEPT ![c] = 0]
    /\ tokenBalance' = [tokenBalance EXCEPT ![Engine] = @ - balances[c],
                                            ![c] = @ + balances[c]]
    /\ totalWithdrawn' = totalWithdrawn + balances[c]
    /\ last' = Call("withdraw", c, 0, c, balances[c])
    /\ emitted' = <<Notice("Withdrawal", 0, c, balances[c])>>
    /\ UNCHANGED <<now, config, isRegisteredUser, events, nextEventId,
                   claimCount, refunded, claimed, releaseCount, sweepCount, totalDebited>>

----------------------------------------------------------------------------
(* Event lifecycle *)

CreateEventGuard(c, startTime, endTime, capacity) ==
    /\ isRegisteredUser[c]
    /\ startTime > now
    /\ endTime > startTime
    /\ capacity > 0
    /\ CanDebit(c, organizerBondAmount)

CreateEvent(c, startTime, endTime, capacity) ==
    /\ nextEventId <= MaxEvents
    /\ CreateEventGuard(c, startTime, endTime, capacity)
    /\ Debit(c, organizerBondAmount)
    /\ nextEventId' = nextEventId + 1
    /\ events' = [events EXCEPT ![nextEventId] =
                    [@ EXCEPT !.organizer = c, !.startTime = startTime,
                              !.endTime = endTime, !.capacity = capacity,
                              !.status = "Published", !.published = TRUE]]
    /\ last' = Call("createEvent", c, nextEventId, c, 0)
    /\ emitted' = <<Notice("EventCreated", nextEventId, c, 0)>>
    /\ UNCHANGED <<now, config, isRegisteredUser, balances,
                   claimCount, refunded, claimed, releaseCount, sweepCount, totalWithdrawn>>

\* CancelEventGuard without the organizer-or-owner requirement
CancelEventGuardNoAuth(c, e) ==
    /\ events[e].status = "Published"
    /\ ~events[e].bondReleased

CancelEventGuard(c, e) ==
    /\ events[e].organizer = c \/ c = Owner
    /\ events[e].status = "Published"
    /\ ~events[e].bondReleased

CancelEvent(c, e) ==
    LET evt == events[e]
        organizerRefund == CalculateRefund(evt, organizerBondAmount)
        organizerPenalty == organizerBondAmount - organizerRefund
        pool == evt.forfeitPool + organizerPenalty
    IN  /\ CancelEventGuard(c, e)
        /\ IF c = Owner
             THEN /\ balances' = [balances EXCEPT ![evt.organizer] = @ + organizerBondAmount]
                  /\ events' = [events EXCEPT ![e] =
                                  [@ EXCEPT !.status = "Canceled", !.bondReleased = TRUE,
                                            !.forfeitPool = 0, !.rewardPerAttendee = 0]]
             ELSE /\ balances' = [balances EXCEPT ![evt.organizer] = @ + organizerRefund]
                  /\ events' = [events EXCEPT ![e] =
                                  [@ EXCEPT !.status = "Canceled", !.bondReleased = TRUE,
                                            !.forfeitPool = pool,
                                            !.rewardPerAttendee =
                                                IF evt.confirmedCount > 0 /\ pool > 0
                                                  THEN pool \div evt.confirmedCount
                                                  ELSE @]]
        /\ releaseCount' = [releaseCount EXCEPT ![e] = Min(@ + 1, 2)]
        /\ last' = Call("cancelEvent", c, e, c, 0)
        /\ emitted' = <<Notice("EventCanceled", e, ZeroAddr, 0)>>
        /\ UNCHANGED <<now, tokenBalance, config, isRegisteredUser, nextEventId,
                       claimCount, refunded, claimed, sweepCount, totalDebited, totalWithdrawn>>

\* CloseCheckInGuard without the event-has-ended requirement
CloseCheckInGuardNoEndCheck(c, e) ==
    /\ events[e].organizer = c
    /\ events[e].status = "Published"
    /\ ~events[e].checkInClosed
    /\ events[e].confirmedCount >= events[e].attendedCount

\* CloseCheckInGuard without the not-yet-closed requirement
CloseCheckInGuardNoClosedCheck(c, e) ==
    /\ events[e].organizer = c
    /\ events[e].status = "Published"
    /\ now >= events[e].endTime
    /\ events[e].confirmedCount >= events[e].attendedCount

CloseCheckInGuard(c, e) ==
    /\ events[e].organizer = c
    /\ events[e].status = "Published"
    /\ now >= events[e].endTime
    /\ ~events[e].checkInClosed
    /\ events[e].confirmedCount >= events[e].attendedCount

CloseCheckIn(c, e) ==
    /\ CloseCheckInGuard(c, e)
    /\ events' = [events EXCEPT ![e] =
                    [@ EXCEPT !.checkInClosed = TRUE,
                              !.forfeitPool = ProcessNoShowForfeits(events[e])]]
    /\ sweepCount' = [sweepCount EXCEPT ![e] = Min(@ + 1, 2)]
    /\ last' = Call("closeCheckIn", c, e, c, 0)
    /\ emitted' = <<Notice("CheckInClosed", e, ZeroAddr, 0)>>
    /\ UNCHANGED <<now, tokenBalance, config, isRegisteredUser, balances, nextEventId,
                   claimCount, refunded, claimed, releaseCount, totalDebited, totalWithdrawn>>

\* CompleteEventGuard without the bondReleased requirement
CompleteEventGuardNoBondCheck(c, e) ==
    /\ \/ events[e].organizer = c
       \/ now >= events[e].endTime + COMPLETION_DEADLINE
    /\ events[e].status = "Published"
    /\ events[e].checkInClosed \/ events[e].confirmedCount >= events[e].attendedCount

\* CompleteEventGuard without the organizer-or-deadline requirement
CompleteEventGuardNoAuth(c, e) ==
    /\ events[e].status = "Published"
    /\ ~events[e].bondReleased
    /\ events[e].checkInClosed \/ events[e].confirmedCount >= events[e].attendedCount

CompleteEventGuard(c, e) ==
    /\ \/ events[e].organizer = c
       \/ now >= events[e].endTime + COMPLETION_DEADLINE
    /\ events[e].status = "Published"
    /\ ~events[e].bondReleased
    /\ events[e].checkInClosed \/ events[e].confirmedCount >= events[e].attendedCount

CompleteEvent(c, e) ==
    LET evt == events[e]
        swept == IF evt.checkInClosed THEN evt.forfeitPool ELSE ProcessNoShowForfeits(evt)
        penalty == BondPenalty(organizerBondAmount, evt.confirmedCount,
                               evt.attendedCount, minAttendanceRatio)
        refund == organizerBondAmount - penalty
        settled == [evt EXCEPT !.checkInClosed = TRUE, !.status = "Completed",
                               !.bondReleased = TRUE, !.forfeitPool = swept + penalty]
    IN  /\ CompleteEventGuard(c, e)
        /\ balances' = [balances EXCEPT ![evt.organizer] =
                          @ + refund + OrganizerShare(settled.forfeitPool, policy)]
        /\ events' = [events EXCEPT ![e] =
                        [settled EXCEPT !.rewardPerAttendee = DistributedReward(settled, policy)]]
        /\ releaseCount' = [releaseCount EXCEPT ![e] = Min(@ + 1, 2)]
        /\ sweepCount' = [sweepCount EXCEPT ![e] =
                            IF evt.checkInClosed THEN @ ELSE Min(@ + 1, 2)]
        /\ last' = Call("completeEvent", c, e, c, 0)
        /\ emitted' = <<Notice("EventCompleted", e, ZeroAddr, 0)>>
        /\ UNCHANGED <<now, tokenBalance, config, isRegisteredUser, nextEventId,
                       claimCount, refunded, claimed, totalDebited, totalWithdrawn>>

----------------------------------------------------------------------------
(* Participant functions *)

\* RegisterForEventGuard admitting one registration beyond the capacity
RegisterForEventGuardOverCapacity(c, e) ==
    /\ isRegisteredUser[c]
    /\ events[e].published
    /\ events[e].status = "Published"
    /\ events[e].confirmedCount <= events[e].capacity
    /\ ~events[e].registrations[c].exists
    /\ now <= events[e].startTime
    /\ CanDebit(c, attendeeDepositAmount)

\* RegisterForEventGuard without the already-registered requirement
RegisterForEventGuardNoExistsCheck(c, e) ==
    /\ isRegisteredUser[c]
    /\ events[e].published
    /\ events[e].status = "Published"
    /\ events[e].confirmedCount < events[e].capacity
    /\ now <= events[e].startTime
    /\ CanDebit(c, attendeeDepositAmount)

RegisterForEventGuard(c, e) ==
    /\ isRegisteredUser[c]
    /\ events[e].published
    /\ events[e].status = "Published"
    /\ events[e].confirmedCount < events[e].capacity
    /\ ~events[e].registrations[c].exists
    /\ now <= events[e].startTime
    /\ CanDebit(c, attendeeDepositAmount)

RegisterForEvent(c, e) ==
    /\ RegisterForEventGuard(c, e)
    /\ Debit(c, attendeeDepositAmount)
    /\ events' = [events EXCEPT ![e] =
                    [@ EXCEPT !.registrations[c] = [status |-> "Confirmed", exists |-> TRUE],
                              !.confirmedCount = @ + 1]]
    /\ last' = Call("registerForEvent", c, e, c, 0)
    /\ emitted' = <<Notice("RegistrationConfirmed", e, c, 0)>>
    /\ UNCHANGED <<now, config, isRegisteredUser, balances, nextEventId,
                   claimCount, refunded, claimed, releaseCount, sweepCount, totalWithdrawn>>

\* CancelRegistrationGuard without the Confirmed requirement
CancelRegistrationGuardNoConfirmedCheck(c, e) ==
    /\ events[e].registrations[c].exists
    /\ events[e].confirmedCount > 0

CancelRegistrationGuard(c, e) ==
    /\ events[e].registrations[c].exists
    /\ events[e].registrations[c].status = "Confirmed"
    /\ events[e].confirmedCount > 0

CancelRegistration(c, e) ==
    LET evt == events[e]
        refundAmount == CalculateRefund(evt, attendeeDepositAmount)
        forfeitAmount == attendeeDepositAmount - refundAmount
    IN  /\ CancelRegistrationGuard(c, e)
        /\ events' = [events EXCEPT ![e] =
                        [@ EXCEPT !.registrations[c].status = "CanceledByParticipant",
                                  !.confirmedCount = @ - 1,
                                  !.forfeitPool = @ + forfeitAmount]]
        /\ balances' = [balances EXCEPT ![c] = @ + refundAmount]
        /\ refunded' = [refunded EXCEPT ![e][c] = @ + refundAmount]
        /\ last' = Call("cancelRegistration", c, e, c, refundAmount)
        /\ emitted' = <<Notice("RegistrationCanceled", e, c, 0)>>
        /\ UNCHANGED <<now, tokenBalance, config, isRegisteredUser, nextEventId,
                       claimCount, claimed, releaseCount, sweepCount, totalDebited, totalWithdrawn>>

\* ClaimPayoutGuard without the rewardsClaimed requirement
ClaimPayoutGuardNoClaimedCheck(c, e) ==
    /\ events[e].status = "Completed" \/ events[e].status = "Canceled"
    /\ events[e].registrations[c].exists

ClaimPayoutGuard(c, e) ==
    /\ events[e].status = "Completed" \/ events[e].status = "Canceled"
    /\ events[e].registrations[c].exists
    /\ ~events[e].rewardsClaimed[c]

ClaimPayout(c, e) ==
    LET totalPayout == GetClaimablePayout(e, c)
    IN  /\ ClaimPayoutGuard(c, e)
        /\ events' = [events EXCEPT ![e] = [@ EXCEPT !.rewardsClaimed[c] = TRUE]]
        /\ balances' = [balances EXCEPT ![c] = @ + totalPayout]
        /\ claimCount' = [claimCount EXCEPT ![e][c] = Min(@ + 1, 2)]
        /\ claimed' = [claimed EXCEPT ![e][c] = @ + totalPayout]
        /\ last' = Call("claimPayout", c, e, c, totalPayout)
        /\ emitted' = <<Notice("RewardsClaimed", e, c, totalPayout)>>
        /\ UNCHANGED <<now, tokenBalance, config, isRegisteredUser, nextEventId,
                       refunded, releaseCount, sweepCount, totalDebited, totalWithdrawn>>

----------------------------------------------------------------------------
(* Organizer functions *)

\* CheckInGuard without the Confirmed requirement on the registration
CheckInGuardNoConfirmedCheck(c, e, p) ==
    /\ events[e].organizer = c
    /\ events[e].status = "Published"
    /\ now >= events[e].startTime
    /\ ~events[e].checkInClosed
    /\ events[e].registrations[p].exists

CheckInGuard(c, e, p) ==
    /\ events[e].organizer = c
    /\ events[e].status = "Published"
    /\ now >= events[e].startTime
    /\ ~events[e].checkInClosed
    /\ events[e].registrations[p].exists
    /\ events[e].registrations[p].status = "Confirmed"

CheckIn(c, e, p) ==
    /\ CheckInGuard(c, e, p)
    /\ events' = [events EXCEPT ![e] =
                    [@ EXCEPT !.registrations[p].status = "Attended",
                              !.attendedCount = @ + 1]]
    /\ last' = Call("checkIn", c, e, p, 0)
    /\ emitted' = <<Notice("ParticipantCheckedIn", e, p, 0)>>
    /\ UNCHANGED <<now, tokenBalance, config, isRegisteredUser, balances,
                   nextEventId, history>>

----------------------------------------------------------------------------
(* The engine under its constructor's configuration *)

Next ==
    \/ Tick
    \/ \E c \in AccountHolders : CreateAccount(c)
    \/ \E c \in Users : Withdraw(c)
    \/ \E c \in Organizers, s \in StartTimes, en \in EndTimes, cap \in Capacities :
          CreateEvent(c, s, en, cap)
    \/ \E c \in Users, e \in EventIds : CancelEvent(c, e)
    \/ \E c \in Users, e \in EventIds : CloseCheckIn(c, e)
    \/ \E c \in Users, e \in EventIds : CompleteEvent(c, e)
    \/ \E c \in Registrants, e \in EventIds : RegisterForEvent(c, e)
    \/ \E c \in Users, e \in EventIds : CancelRegistration(c, e)
    \/ \E c \in Users, e \in EventIds : ClaimPayout(c, e)
    \/ \E c \in Users, e \in EventIds, p \in Users : CheckIn(c, e, p)

Spec == Init /\ [][Next]_vars

(* The engine while the owner also moves the attendance ratio *)

NextRatio ==
    \/ Next
    \/ \E r \in Ratios : SetMinAttendanceRatio(Owner, r)

SpecRatio == Init /\ [][NextRatio]_vars

(* The engine with users who hold one unit less than a bond and a deposit *)

ScarceTokens == DefaultBond + DefaultDeposit - 1

InitScarce ==
    /\ now = Genesis
    /\ tokenBalance = [a \in Users \cup {Engine} |-> IF a = Engine THEN 0 ELSE ScarceTokens]
    /\ attendeeDepositAmount = DefaultDeposit
    /\ organizerBondAmount = DefaultBond
    /\ minAttendanceRatio = DefaultMinAttendanceRatio
    /\ policy = DefaultPolicy
    /\ isRegisteredUser = [u \in Users |-> FALSE]
    /\ balances = [a \in Addrs |-> 0]
    /\ events = [e \in EventIds |-> ZeroEvent]
    /\ nextEventId = 1
    /\ last = Call("constructor", Owner, 0, Owner, 0)
    /\ emitted = <<>>
    /\ claimCount = [e \in EventIds |-> [u \in Users |-> 0]]
    /\ refunded = [e \in EventIds |-> [u \in Users |-> 0]]
    /\ claimed = [e \in EventIds |-> [u \in Users |-> 0]]
    /\ releaseCount = [e \in EventIds |-> 0]
    /\ sweepCount = [e \in EventIds |-> 0]
    /\ totalDebited = 0
    /\ totalWithdrawn = 0

SpecScarce == InitScarce /\ [][Next]_vars

(* The refund calculator with its callers, cancelRegistration and
   cancelEvent, while the owner also replaces the refund policy *)

NextRefund ==
    \/ Tick
    \/ \E f \in PolicyHours, p \in PolicyHours, pct \in PolicyPercents,
          sh \in PolicyShares : UpdatePolicy(Owner, f, p, pct, sh)
    \/ \E c \in AccountHolders : CreateAccount(c)
    \/ \E c \in Organizers, s \in StartTimes, en \in EndTimes, cap \in Capacities :
          CreateEvent(c, s, en, cap)
    \/ \E c \in Registrants, e \in EventIds : RegisterForEvent(c, e)
    \/ \E c \in Users, e \in EventIds : CancelRegistration(c, e)
    \/ \E c \in Users, e \in EventIds : CancelEvent(c, e)

SpecRefund == Init /\ [][NextRefund]_vars

(* The engine while the owner also moves the attendee share of the policy
   and can demand full attendance *)

NextShare ==
    \/ Next
    \/ \E sh \in AttendeeShares :
          UpdatePolicy(Owner, DefaultPolicy.fullRefundHours, DefaultPolicy.partialRefundHours,
                       DefaultPolicy.partialRefundPercent, sh)
    \/ SetMinAttendanceRatio(Owner, 10000)

SpecShare == Init /\ [][NextShare]_vars

(* The two validated configuration setters alone, called by anyone with
   valid and invalid arguments *)

ConfigShares == {0, 100, 150}

ConfigRatios == Ratios \cup {0, 10001}

NextConfig ==
    \/ \E c \in Users, fh \in PolicyHours, ph \in PolicyHours,
          pp \in PolicyPercents, sh \in ConfigShares :
          UpdatePolicy(c, fh, ph, pp, sh)
    \/ \E c \in Users, r \in ConfigRatios : SetMinAttendanceRatio(c, r)

SpecConfig == Init /\ [][NextConfig]_vars

(* The functions that lock, return, forfeit or sweep a deposit or a bond,
   while the owner can also change the two amounts *)

DepositAmounts == {2 * DefaultDeposit}

BondAmounts == {DefaultBond \div 2}

NextAmounts ==
    \/ Tick
    \/ \E c \in Users, d \in DepositAmounts : SetAttendeeDepositAmount(c, d)
    \/ \E c \in Users, b \in BondAmounts : SetOrganizerBondAmount(c, b)
    \/ \E c \in AccountHolders : CreateAccount(c)
    \/ \E c \in Organizers, s \in StartTimes, en \in EndTimes, cap \in Capacities :
          CreateEvent(c, s, en, cap)
    \/ \E c \in Users, e \in EventIds : CancelEvent(c, e)
    \/ \E c \in Users, e \in EventIds : CloseCheckIn(c, e)
    \/ \E c \in Users, e \in EventIds : CompleteEvent(c, e)
    \/ \E c \in Registrants, e \in EventIds : RegisterForEvent(c, e)
    \/ \E c \in Users, e \in EventIds : CancelRegistration(c, e)
    \/ \E c \in Users, e \in EventIds : ClaimPayout(c, e)

SpecAmounts == Init /\ [][NextAmounts]_vars

(* The engine while the owner can also set a policy without refund windows
   that gives the whole pool to the attendees *)

NextOpenPolicy ==
    \/ Next
    \/ UpdatePolicy(Owner, 0, 0, DefaultPolicy.partialRefundPercent, 100)

SpecOpenPolicy == Init /\ [][NextOpenPolicy]_vars

----------------------------------------------------------------------------
(* Accounting terms *)

RECURSIVE SumOver(_, _)
SumOver(S, f) ==
    IF S = {} THEN 0
    ELSE LET x == CHOOSE y \in S : TRUE
         IN  f[x] + SumOver(S \ {x}, f)

Created(e) == e < nextEventId

\* value the engine holds in custody
Custody == totalDebited - totalWithdrawn

SumBalances == SumOver(Addrs, balances)

SumUserBalances == SumOver(Users, balances)

SumForfeitPools == SumOver(EventIds, [e \in EventIds |-> events[e].forfeitPool])

SumUnreleasedBonds ==
    SumOver(EventIds, [e \in EventIds |->
        IF Created(e) /\ ~events[e].bondReleased THEN organizerBondAmount ELSE 0])

\* a deposit still locked for its registrant: neither refunded, forfeited,
\* swept as a no-show nor claimed
DepositLocked(e, u) ==
    LET evt == events[e]
        reg == evt.registrations[u]
    IN  /\ reg.exists
        /\ ~evt.rewardsClaimed[u]
        /\ \/ reg.status = "Attended"
           \/ reg.status = "Confirmed" /\ ~evt.checkInClosed

SumUnclaimedDeposits ==
    SumOver(EventIds \X Users, [x \in EventIds \X Users |->
        IF DepositLocked(x[1], x[2]) THEN attendeeDepositAmount ELSE 0])

----------------------------------------------------------------------------
(* Claims *)

\* C1: after any sequence of operations, account balances + forfeit pools +
\* unreleased bonds + unclaimed deposits equal the value ever debited from
\* payers minus the value ever withdrawn.
Conservation ==
    SumBalances + SumForfeitPools + SumUnreleasedBonds + SumUnclaimedDeposits
        = totalDebited - totalWithdrawn

\* C2: in every reachable state the balances of the users sum to at most the
\* value the engine holds in custody, so every withdraw can be paid in full.
Solvency ==
    /\ Custody = tokenBalance[Engine]
    /\ SumUserBalances <= Custody

\* C3: for every (event, identity) claimPayout succeeds at most once; once it
\* has succeeded every further claimPayout of that pair is rejected.
ClaimIdempotence ==
    \A e \in EventIds, u \in Users :
        /\ claimCount[e][u] <= 1
        /\ claimCount[e][u] = 1 =>
              /\ events[e].rewardsClaimed[u]
              /\ ~ClaimPayoutGuard(u, e)
              /\ GetClaimablePayout(e, u) = 0

ClaimIdempotenceWitness ==
    \E e \in EventIds, u \in Users :
        /\ claimCount[e][u] = 1
        /\ claimed[e][u] > 0
        /\ last.op # "claimPayout"

\* C4: for every registration, the refund credited by cancelRegistration plus
\* the amount credited by claimPayout is at most attendeeDeposit + the event's
\* rewardPerAttendee.
DepositPaidOnce ==
    \A e \in EventIds, u \in Users :
        refunded[e][u] + claimed[e][u]
            <= attendeeDepositAmount + events[e].rewardPerAttendee

\* C5: once an event's status is Canceled or Completed it never changes again.
TerminalStatusFinal ==
    [][\A e \in EventIds :
          events[e].status \in {"Canceled", "Completed"}
              => events'[e].status = events[e].status]_vars

\* C6: over any sequence of cancelEvent and completeEvent calls on one event at
\* most one succeeds, and after it both are rejected for every caller.
BondReleasedOnce ==
    \A e \in EventIds :
        /\ releaseCount[e] <= 1
        /\ releaseCount[e] = 1 =>
              /\ events[e].bondReleased
              /\ \A c \in Users : ~CancelEventGuard(c, e) /\ ~CompleteEventGuard(c, e)

BondReleasedOnceWitness ==
    \E e \in EventIds :
        /\ releaseCount[e] = 1
        /\ Created(e)
        /\ events[e].status = "Published"

\* C7: completeEvent succeeds only if the caller is the event's organizer or
\* now >= endTime + completionDeadline; any other call is rejected.
CompleteAuthorization ==
    /\ last.op = "completeEvent" =>
          \/ last.caller = events[last.id].organizer
          \/ now >= events[last.id].endTime + COMPLETION_DEADLINE
    /\ \A e \in EventIds, c \in Users :
          (c # events[e].organizer /\ now < events[e].endTime + COMPLETION_DEADLINE)
              => ~CompleteEventGuard(c, e)

CompleteAuthorizationWitness ==
    /\ last.op = "completeEvent"
    /\ events[last.id].published
    /\ last.caller # events[last.id].organizer
    /\ events[last.id].status = "Completed"

\* C8: every created event that is still Published can be completed by any
\* caller once now >= endTime + completionDeadline.
EscapeHatch ==
    \A e \in EventIds :
        (/\ Created(e)
         /\ events[e].status = "Published"
         /\ now >= events[e].endTime + COMPLETION_DEADLINE)
            => \A c \in Users : CompleteEventGuard(c, e)

AttendanceThreshold ==
    [][\A e \in EventIds :
          (/\ last'.op = "completeEvent" /\ last'.id = e
           /\ events[e].status = "Published"
           /\ events[e].confirmedCount > 0) =>
              LET evt == events[e]
                  credited == balances'[evt.organizer] - balances[evt.organizer]
                  bondRefund == credited - OrganizerShare(events'[e].forfeitPool, policy)
              IN  (bondRefund = organizerBondAmount)
                      <=> (evt.attendedCount * 10000
                              >= minAttendanceRatio * evt.confirmedCount)]_vars

\* C11: under every policy updatePolicy accepts, the refund is non-increasing
\* in now and lies between 0 and the amount, for every startTime and amount;
\* so does the refund each cancelRegistration credits.
RefundMonotone ==
    /\ \A s \in RefundStartTimes, a \in RefundAmounts, t1 \in TimePoints :
          LET r1 == Refund(s, t1, policy, a)
          IN  /\ 0 <= r1
              /\ r1 <= a
              /\ \A t2 \in {t \in TimePoints : t1 <= t} : r1 >= Refund(s, t2, policy, a)
    /\ last.op = "cancelRegistration" =>
          (0 <= last.amount /\ last.amount <= attendeeDepositAmount)

RefundMonotoneWitness ==
    /\ policy # DefaultPolicy
    /\ last.op = "cancelRegistration"
    /\ 0 < last.amount
    /\ last.amount < attendeeDepositAmount
    /\ \E s \in RefundStartTimes, t1 \in TimePoints, t2 \in TimePoints, t3 \in TimePoints :
          /\ Refund(s, t1, policy, DefaultBond) > Refund(s, t2, policy, DefaultBond)
          /\ Refund(s, t2, policy, DefaultBond) > Refund(s, t3, policy, DefaultBond)

NoRefundAfterStart ==
    /\ \A s \in RefundStartTimes, a \in RefundAmounts, t \in TimePoints :
          t >= s => Refund(s, t, policy, a) = 0
    /\ (last.op = "cancelRegistration" /\ now >= events[last.id].startTime) =>
          last.amount = 0

\* C14: registerForEvent is rejected whenever confirmedCount equals capacity,
\* and succeeds for the capacity-th registration (confirmedCount = capacity - 1)
\* when its other preconditions hold; no registration ever takes
\* confirmedCount beyond capacity.
CapacityEnforced ==
    /\ \A e \in EventIds, c \in Users :
          LET evt == events[e]
          IN  /\ evt.confirmedCount = evt.capacity => ~RegisterForEventGuard(c, e)
              /\ (/\ evt.confirmedCount = evt.capacity - 1
                  /\ isRegisteredUser[c]
                  /\ evt.published
                  /\ evt.status = "Published"
                  /\ ~evt.registrations[c].exists
                  /\ now <= evt.startTime
                  /\ tokenBalance[c] >= attendeeDepositAmount)
                    => RegisterForEventGuard(c, e)
    /\ last.op = "registerForEvent" =>
          events[last.id].confirmedCount <= events[last.id].capacity

\* the capacity-th registration has just succeeded and one more is refused
\* for the capacity alone
CapacityEnforcedWitness ==
    /\ last.op = "registerForEvent"
    /\ events[last.id].confirmedCount = events[last.id].capacity
    /\ \E c \in Users :
          /\ isRegisteredUser[c]
          /\ ~events[last.id].registrations[c].exists
          /\ events[last.id].status = "Published"
          /\ now <= events[last.id].startTime
          /\ tokenBalance[c] >= attendeeDepositAmount
          /\ ~RegisterForEventGuard(c, last.id)

\* C15: registerForEvent succeeds only for a caller with an account, on a
\* Published event, with confirmedCount < capacity, now <= startTime and no
\* registration record of the caller; a record, once there, stays, so an
\* identity registers for an event at most once, also after cancelling; each
\* success debits exactly attendeeDeposit, sets the registration to Confirmed
\* and increments confirmedCount by one.
RegistrationPreconditions ==
    [][/\ \A e \in EventIds, u \in Users :
            /\ events[e].registrations[u].exists => events'[e].registrations[u].exists
            /\ events[e].registrations[u].exists => ~RegisterForEventGuard(u, e)
       /\ last'.op = "registerForEvent" =>
            LET c == last'.caller
                e == last'.id
                evt == events[e]
            IN  /\ isRegisteredUser[c]
                /\ evt.published
                /\ evt.status = "Published"
                /\ evt.confirmedCount < evt.capacity
                /\ now <= evt.startTime
                /\ ~evt.registrations[c].exists
                /\ tokenBalance'[c] = tokenBalance[c] - attendeeDepositAmount
                /\ tokenBalance'[Engine] = tokenBalance[Engine] + attendeeDepositAmount
                /\ totalDebited' = totalDebited + attendeeDepositAmount
                /\ events'[e].registrations[c] = [status |-> "Confirmed", exists |-> TRUE]
                /\ events'[e].confirmedCount = evt.confirmedCount + 1
                /\ balances' = balances]_vars

\* one identity has just registered while another, who cancelled, is refused
\* although the event is open and has room
RegistrationPreconditionsWitness ==
    /\ last.op = "registerForEvent"
    /\ \E c \in Users :
          /\ events[last.id].registrations[c].status = "CanceledByParticipant"
          /\ isRegisteredUser[c]
          /\ events[last.id].status = "Published"
          /\ events[last.id].confirmedCount < events[last.id].capacity
          /\ now <= events[last.id].startTime
          /\ tokenBalance[c] >= attendeeDepositAmount
          /\ ~RegisterForEventGuard(c, last.id)

\* C16: a successful cancelRegistration requires an existing Confirmed
\* registration, sets it to CanceledByParticipant, decrements confirmedCount
\* by one, credits r = refund(startTime, now, policy, attendeeDeposit) to the
\* participant and adds exactly attendeeDeposit - r to the forfeit pool;
\* inside the full-refund window the balance rises by exactly attendeeDeposit
\* and the pool is unchanged.
CancelRegistrationAccounting ==
    [][last'.op = "cancelRegistration" =>
          LET c == last'.caller
              e == last'.id
              evt == events[e]
              timeUntilStart == IF evt.startTime > now THEN evt.startTime - now ELSE 0
              r == IF timeUntilStart >= policy.fullRefundHours * Hour
                     THEN attendeeDepositAmount
                   ELSE IF timeUntilStart >= policy.partialRefundHours * Hour
                     THEN (attendeeDepositAmount * policy.partialRefundPercent) \div 100
                   ELSE 0
          IN  /\ evt.registrations[c] = [status |-> "Confirmed", exists |-> TRUE]
              /\ events'[e].registrations[c]
                    = [status |-> "CanceledByParticipant", exists |-> TRUE]
              /\ events'[e].confirmedCount = evt.confirmedCount - 1
              /\ balances'[c] = balances[c] + r
              /\ \A a \in Addrs \ {c} : balances'[a] = balances[a]
              /\ events'[e].forfeitPool = evt.forfeitPool + (attendeeDepositAmount - r)
              /\ timeUntilStart >= policy.fullRefundHours * Hour =>
                    /\ balances'[c] = balances[c] + attendeeDepositAmount
                    /\ events'[e].forfeitPool = evt.forfeitPool
              /\ tokenBalance' = tokenBalance]_vars

\* a cancellation in the partial tier, under a policy the owner has set:
\* part of the deposit credited, the rest in the pool
CancelRegistrationAccountingWitness ==
    /\ last.op = "cancelRegistration"
    /\ policy # DefaultPolicy
    /\ 0 < last.amount
    /\ last.amount < attendeeDepositAmount
    /\ balances[last.caller] = last.amount
    /\ events[last.id].forfeitPool = attendeeDepositAmount - last.amount
    /\ events[last.id].registrations[last.caller].status = "CanceledByParticipant"

\* C17: checkIn succeeds only when the caller is the organizer, the event is
\* Published, now >= startTime, check-in is open and the target's
\* registration is Confirmed; it sets the registration to Attended and
\* increments attendedCount by one; checkIn of an Attended,
\* CanceledByParticipant or unregistered identity is rejected.
CheckInRules ==
    [][/\ \A e \in EventIds, c \in Users, p \in Users :
            events[e].registrations[p].status # "Confirmed" => ~CheckInGuard(c, e, p)
       /\ last'.op = "checkIn" =>
            LET c == last'.caller
                e == last'.id
                p == last'.who
                evt == events[e]
            IN  /\ c = evt.organizer
                /\ evt.status = "Published"
                /\ now >= evt.startTime
                /\ ~evt.checkInClosed
                /\ evt.registrations[p] = [status |-> "Confirmed", exists |-> TRUE]
                /\ events'[e].registrations[p] = [status |-> "Attended", exists |-> TRUE]
                /\ events'[e].attendedCount = evt.attendedCount + 1
                /\ events'[e].confirmedCount = evt.confirmedCount
                /\ \A u \in Users \ {p} :
                      events'[e].registrations[u] = evt.registrations[u]
                /\ balances' = balances
                /\ tokenBalance' = tokenBalance]_vars

\* one registrant has just been checked in; the organizer can check in
\* neither that one again nor the one who cancelled
CheckInRulesWitness ==
    /\ last.op = "checkIn"
    /\ ~events[last.id].checkInClosed
    /\ events[last.id].status = "Published"
    /\ events[last.id].registrations[last.who].status = "Attended"
    /\ ~CheckInGuard(last.caller, last.id, last.who)
    /\ \E u \in Users :
          /\ events[last.id].registrations[u].status = "CanceledByParticipant"
          /\ ~CheckInGuard(last.caller, last.id, u)

\* C18: a successful claimPayout requires the event to be Completed or
\* Canceled, an existing registration and no prior claim; it credits
\* attendeeDeposit + rewardPerAttendee to an Attended registration, the same
\* to a Confirmed or CanceledByParticipant registration of a Canceled event,
\* and 0 to a Confirmed or CanceledByParticipant registration of a Completed
\* event.
ClaimPayoutAmount ==
    [][last'.op = "claimPayout" =>
          LET c == last'.caller
              e == last'.id
              evt == events[e]
              reg == evt.registrations[c]
              credited == balances'[c] - balances[c]
          IN  /\ evt.status \in {"Completed", "Canceled"}
              /\ reg.exists
              /\ ~evt.rewardsClaimed[c]
              /\ events'[e].rewardsClaimed[c]
              /\ last'.amount = credited
              /\ \A a \in Addrs \ {c} : balances'[a] = balances[a]
              /\ reg.status = "Attended" =>
                    credited = attendeeDepositAmount + evt.rewardPerAttendee
              /\ (/\ evt.status = "Canceled"
                  /\ reg.status \in {"Confirmed", "CanceledByParticipant"}) =>
                    credited = attendeeDepositAmount + evt.rewardPerAttendee
              /\ (/\ evt.status = "Completed"
                  /\ reg.status \in {"Confirmed", "CanceledByParticipant"}) =>
                    credited = 0]_vars

\* the claim of one who cancelled, on an event its organizer then cancelled
\* with a penalty: the deposit and a share of the penalty
ClaimPayoutAmountWitness ==
    /\ last.op = "claimPayout"
    /\ events[last.id].status = "Canceled"
    /\ events[last.id].registrations[last.caller].status = "CanceledByParticipant"
    /\ events[last.id].rewardPerAttendee > 0
    /\ last.amount = attendeeDepositAmount + events[last.id].rewardPerAttendee

\* C19: when the owner's cancelEvent succeeds the event becomes Canceled with
\* bondReleased set, the organizer's balance rises by exactly organizerBond,
\* forfeitPool and rewardPerAttendee are 0, and every identity with a
\* registration record, earlier cancellers included, has a claimable payout
\* of exactly attendeeDeposit.
AdminCancellation ==
    [][\A e \in EventIds :
        (last'.op = "cancelEvent" /\ last'.caller = Owner /\ last'.id = e) =>
          LET evt == events[e]
          IN  /\ evt.status = "Published"
              /\ events'[e].status = "Canceled"
              /\ events'[e].bondReleased
              /\ balances'[evt.organizer] = balances[evt.organizer] + organizerBondAmount
              /\ \A a \in Addrs \ {evt.organizer} : balances'[a] = balances[a]
              /\ events'[e].forfeitPool = 0
              /\ events'[e].rewardPerAttendee = 0
              /\ \A u \in Users :
                    evt.registrations[u].exists =>
                        GetClaimablePayout(e, u)' = attendeeDepositAmount]_vars

\* the owner has cancelled a created event that held a forfeit of an earlier
\* canceller and a Confirmed registration
AdminCancellationWitness ==
    /\ last.op = "cancelEvent"
    /\ last.caller = Owner
    /\ events[last.id].published
    /\ balances[events[last.id].organizer] = organizerBondAmount
    /\ \E u \in Users, v \in Users :
          /\ events[last.id].registrations[u].status = "CanceledByParticipant"
          /\ refunded[last.id][u] < attendeeDepositAmount
          /\ events[last.id].registrations[v].status = "Confirmed"
          /\ GetClaimablePayout(last.id, u) = attendeeDepositAmount

\* C20: when the organizer, not the owner, cancels the event, the organizer is
\* credited r = refund(startTime, now, policy, organizerBond), organizerBond - r
\* is added to forfeitPool, rewardPerAttendee becomes
\* floor(forfeitPool / confirmedCount) when confirmedCount > 0 and
\* forfeitPool > 0, and every Confirmed or CanceledByParticipant registrant
\* then has claimable payout attendeeDeposit + rewardPerAttendee.
OrganizerCancellation ==
    [][\A e \in EventIds :
        (last'.op = "cancelEvent" /\ last'.caller # Owner /\ last'.id = e) =>
          LET evt == events[e]
              timeUntilStart == IF evt.startTime > now THEN evt.startTime - now ELSE 0
              r == IF timeUntilStart >= policy.fullRefundHours * Hour
                     THEN organizerBondAmount
                   ELSE IF timeUntilStart >= policy.partialRefundHours * Hour
                     THEN (organizerBondAmount * policy.partialRefundPercent) \div 100
                   ELSE 0
              pool == evt.forfeitPool + (organizerBondAmount - r)
          IN  /\ last'.caller = evt.organizer
              /\ events'[e].status = "Canceled"
              /\ events'[e].bondReleased
              /\ balances'[evt.organizer] = balances[evt.organizer] + r
              /\ \A a \in Addrs \ {evt.organizer} : balances'[a] = balances[a]
              /\ events'[e].forfeitPool = pool
              /\ (evt.confirmedCount > 0 /\ pool > 0) =>
                    events'[e].rewardPerAttendee = pool \div evt.confirmedCount
              /\ \A u \in Users :
                    evt.registrations[u].status \in {"Confirmed", "CanceledByParticipant"} =>
                        GetClaimablePayout(e, u)'
                            = attendeeDepositAmount + events'[e].rewardPerAttendee]_vars

\* the organizer has cancelled in the partial tier with two Confirmed
\* registrants: part of the bond back, the rest shared between the two
OrganizerCancellationWitness ==
    /\ last.op = "cancelEvent"
    /\ last.caller = events[last.id].organizer
    /\ events[last.id].confirmedCount = 2
    /\ 0 < balances[last.caller]
    /\ balances[last.caller] < organizerBondAmount
    /\ events[last.id].forfeitPool = organizerBondAmount - balances[last.caller]
    /\ events[last.id].rewardPerAttendee = events[last.id].forfeitPool \div 2
    /\ events[last.id].rewardPerAttendee > 0

\* C21: cancelEvent succeeds only when the caller is the event's organizer or
\* the owner and the event is Published with the bond not yet released; a
\* call by any other identity, or on any other event state, is rejected.
CancelAuthorization ==
    [][/\ \A e \in EventIds, c \in Users :
            (\/ (c # events[e].organizer /\ c # Owner)
             \/ events[e].status # "Published"
             \/ events[e].bondReleased)
                => ~CancelEventGuard(c, e)
       /\ last'.op = "cancelEvent" =>
            LET c == last'.caller
                evt == events[last'.id]
            IN  /\ c = evt.organizer \/ c = Owner
                /\ evt.status = "Published"
                /\ ~evt.bondReleased
                /\ events'[last'.id].status = "Canceled"
                /\ events'[last'.id].bondReleased]_vars

\* the organizer has cancelled the event; nobody, the owner included, can
\* cancel it again
CancelAuthorizationWitness ==
    /\ last.op = "cancelEvent"
    /\ last.caller = events[last.id].organizer
    /\ last.caller # Owner
    /\ events[last.id].status = "Canceled"
    /\ \A c \in Users : ~CancelEventGuard(c, last.id)

\* C22: closeCheckIn succeeds only for the organizer of a Published event with
\* now >= endTime and checkInClosed false; it sets checkInClosed and adds
\* exactly (confirmedCount - attendedCount) * attendeeDeposit to forfeitPool;
\* a second closeCheckIn is rejected, and checkInClosed never returns to
\* false.
CloseCheckInRules ==
    [][/\ \A e \in EventIds :
            /\ events[e].checkInClosed => events'[e].checkInClosed
            /\ events[e].checkInClosed => \A c \in Users : ~CloseCheckInGuard(c, e)
       /\ last'.op = "closeCheckIn" =>
            LET c == last'.caller
                e == last'.id
                evt == events[e]
            IN  /\ c = evt.organizer
                /\ evt.status = "Published"
                /\ now >= evt.endTime
                /\ ~evt.checkInClosed
                /\ events'[e].checkInClosed
                /\ events'[e].forfeitPool
                      = evt.forfeitPool
                          + (evt.confirmedCount - evt.attendedCount) * attendeeDepositAmount
                /\ events'[e].status = evt.status
                /\ events'[e].registrations = evt.registrations
                /\ balances' = balances
                /\ tokenBalance' = tokenBalance]_vars

\* check-in has just been closed on an event with one attendee and one
\* no-show, whose deposit is now in the pool
CloseCheckInRulesWitness ==
    /\ last.op = "closeCheckIn"
    /\ events[last.id].attendedCount = 1
    /\ events[last.id].confirmedCount = 2
    /\ events[last.id].forfeitPool = attendeeDepositAmount
    /\ \A c \in Users : ~CloseCheckInGuard(c, last.id)

\* C23: at completeEvent, with P the non-zero forfeit pool after the sweep and
\* the bond penalty, the organizer is credited
\* organizerShare = floor(P * (100 - attendeeSharePercent) / 100) next to the
\* bond refund, attendeeShare = P - organizerShare, and rewardPerAttendee =
\* floor(attendeeShare / attendedCount) if attendedCount > 0, else 0.
ForfeitDistribution ==
    [][\A e \in EventIds :
        (last'.op = "completeEvent" /\ last'.id = e /\ events[e].status = "Published") =>
          LET evt == events[e]
              required == (evt.confirmedCount * minAttendanceRatio) \div 10000
              penalty ==
                  IF required = 0 \/ evt.attendedCount >= required
                    THEN 0
                    ELSE (organizerBondAmount * (required - evt.attendedCount)) \div required
              swept ==
                  IF evt.checkInClosed THEN 0
                  ELSE (evt.confirmedCount - evt.attendedCount) * attendeeDepositAmount
              P == evt.forfeitPool + swept + penalty
              organizerShare == (P * (100 - policy.attendeeSharePercent)) \div 100
              attendeeShare == P - organizerShare
          IN  P # 0 =>
                /\ balances'[evt.organizer]
                      = balances[evt.organizer] + (organizerBondAmount - penalty) + organizerShare
                /\ events'[e].rewardPerAttendee
                      = IF evt.attendedCount > 0
                          THEN attendeeShare \div evt.attendedCount
                          ELSE 0]_vars

\* a completion under full attendance demanded and the whole pool going to
\* attendees: one attendee of two confirmed, penalty 50 and one swept deposit
ForfeitDistributionWitness ==
    /\ last.op = "completeEvent"
    /\ events[last.id].published
    /\ policy.attendeeSharePercent = 100
    /\ events[last.id].attendedCount = 1
    /\ events[last.id].forfeitPool = 60
    /\ events[last.id].rewardPerAttendee = 60
    /\ balances[events[last.id].organizer] = 50

WithdrawRules ==
    [][/\ \A c \in Users :
            /\ balances[c] = 0 => ~WithdrawGuard(c)
            /\ (balances[c] > 0 /\ tokenBalance[Engine] >= balances[c]) => WithdrawGuard(c)
       /\ last'.op = "withdraw" =>
            LET c == last'.caller
                b == balances[c]
            IN  /\ b > 0
                /\ last'.amount = b
                /\ balances'[c] = 0
                /\ \A a \in Addrs \ {c} : balances'[a] = balances[a]
                /\ tokenBalance'[c] = tokenBalance[c] + b
                /\ tokenBalance'[Engine] = tokenBalance[Engine] - b
                /\ \A u \in Users \ {c} : tokenBalance'[u] = tokenBalance[u]
                /\ events' = events
                /\ nextEventId' = nextEventId
                /\ isRegisteredUser' = isRegisteredUser]_vars

\* an attendee has withdrawn the deposit and the reward claimed before, while
\* the organizer's balance is untouched
WithdrawRulesWitness ==
    /\ last.op = "withdraw"
    /\ last.amount > attendeeDepositAmount
    /\ last.caller # events[1].organizer
    /\ balances[last.caller] = 0
    /\ balances[events[1].organizer] > 0
    /\ ~WithdrawGuard(last.caller)

ConfigurationValid ==
    [][/\ policy'.fullRefundHours >= policy'.partialRefundHours
       /\ policy'.partialRefundPercent <= 100
       /\ policy'.attendeeSharePercent <= 100
       /\ minAttendanceRatio' <= 10000
       /\ \A c \in Users, fh \in PolicyHours, ph \in PolicyHours,
             pp \in PolicyPercents, sh \in ConfigShares :
             (fh < ph \/ pp > 100 \/ sh > 100) => ~UpdatePolicyGuard(c, fh, ph, pp, sh)
       /\ \A c \in Users, r \in ConfigRatios :
             r > 10000 => ~SetMinAttendanceRatioGuard(c, r)
       /\ policy' # policy =>
             /\ last'.op = "updatePolicy"
             /\ last'.caller = Owner
             /\ minAttendanceRatio' = minAttendanceRatio
       /\ minAttendanceRatio' # minAttendanceRatio =>
             /\ last'.op = "setMinAttendanceRatio"
             /\ last'.caller = Owner
             /\ last'.amount = minAttendanceRatio'
             /\ policy' = policy]_vars

\* both setters have been used, and every constraint sits on its boundary
ConfigurationValidWitness ==
    /\ policy # DefaultPolicy
    /\ policy.fullRefundHours = policy.partialRefundHours
    /\ policy.fullRefundHours > 0
    /\ policy.partialRefundPercent = 100
    /\ policy.attendeeSharePercent = 100
    /\ minAttendanceRatio = 10000
    /\ last.op = "setMinAttendanceRatio"

\* C28: the status of every registration only moves None -> Confirmed and
\* then Confirmed -> CanceledByParticipant or Confirmed -> Attended; the two
\* final statuses are never left (no operation is accepted on them that would
\* change them), and a record once created is never deleted.
RegistrationStatusOneWay ==
    [][\A e \in EventIds, u \in Users :
          LET reg == events[e].registrations[u]
              regAfter == events'[e].registrations[u]
          IN  /\ \/ regAfter.status = reg.status
                 \/ reg.status = "None" /\ regAfter.status = "Confirmed"
                 \/ /\ reg.status = "Confirmed"
                    /\ regAfter.status \in {"CanceledByParticipant", "Attended"}
              /\ reg.exists => regAfter.exists
              /\ regAfter.exists <=> regAfter.status # "None"
              /\ reg.status \in {"CanceledByParticipant", "Attended"} =>
                    /\ ~RegisterForEventGuard(u, e)
                    /\ ~CancelRegistrationGuard(u, e)
                    /\ \A c \in Users : ~CheckInGuard(c, e, u)]_vars

\* one participant of an event has canceled and another has attended, and
\* both records are still as they were after the event was completed and the
\* attendee claimed
RegistrationStatusOneWayWitness ==
    \E e \in EventIds, u \in Users, v \in Users :
        /\ events[e].registrations[u].status = "CanceledByParticipant"
        /\ events[e].registrations[v].status = "Attended"
        /\ events[e].status = "Completed"
        /\ last.op = "claimPayout"
        /\ last.caller = v

\* C29: right after an accepted createEvent the new event has the identifier
\* that was next (unused before and greater than all earlier ones), is
\* Published with bondReleased and checkInClosed false, has no confirmed or
\* attended participants, an empty forfeit pool and no reward, and exactly
\* the organizer bond went from the organizer to the engine.
FreshEventState ==
    [][last'.op = "createEvent" =>
          \A e \in EventIds :
              last'.id = e =>
                  /\ e = nextEventId
                  /\ nextEventId' = e + 1
                  /\ ~events[e].published
                  /\ events'[e].published
                  /\ events'[e].organizer = last'.caller
                  /\ events'[e].status = "Published"
                  /\ ~events'[e].bondReleased
                  /\ ~events'[e].checkInClosed
                  /\ events'[e].confirmedCount = 0
                  /\ events'[e].attendedCount = 0
                  /\ events'[e].forfeitPool = 0
                  /\ events'[e].rewardPerAttendee = 0
                  /\ tokenBalance'[last'.caller] = tokenBalance[last'.caller] - organizerBondAmount
                  /\ tokenBalance'[Engine] = tokenBalance[Engine] + organizerBondAmount]_vars

\* C30: the no-show sweep is applied to an event by closeCheckIn, or by
\* completeEvent when check-in was never closed, and by nothing else; an event
\* that is Completed has been swept exactly once: completeEvent sweeps if and
\* only if closeCheckIn has not, and closeCheckIn is never accepted twice or
\* after the completion.
NoShowSweepOnce ==
    [][\A e \in EventIds :
          LET evt == events[e]
              noShowDeposits == (evt.confirmedCount - evt.attendedCount) * attendeeDepositAmount
          IN  /\ events'[e].status = "Completed" =>
                    /\ sweepCount'[e] = 1
                    /\ events'[e].checkInClosed
              /\ (last'.op = "closeCheckIn" /\ last'.id = e) =>
                    /\ ~evt.checkInClosed
                    /\ sweepCount'[e] = sweepCount[e] + 1
                    /\ events'[e].forfeitPool = evt.forfeitPool + noShowDeposits
              /\ (last'.op = "completeEvent" /\ last'.id = e) =>
                    /\ sweepCount'[e] = IF evt.checkInClosed THEN 1 ELSE sweepCount[e] + 1
                    /\ events'[e].forfeitPool =
                          evt.forfeitPool
                            + (IF evt.checkInClosed THEN 0 ELSE noShowDeposits)
                            + BondPenalty(organizerBondAmount, evt.confirmedCount,
                                          evt.attendedCount, minAttendanceRatio)
              /\ sweepCount'[e] # sweepCount[e] =>
                    /\ last'.op \in {"closeCheckIn", "completeEvent"}
                    /\ last'.id = e
              /\ evt.status = "Completed" => \A c \in Users : ~CloseCheckInGuard(c, e)]_vars

\* an event with an attendee and a no-show has just been completed, and the
\* no-show's deposit is in the pool once
NoShowSweepOnceWitness ==
    \E e \in EventIds :
        /\ last.op = "completeEvent"
        /\ last.id = e
        /\ events[e].status = "Completed"
        /\ events[e].published
        /\ events[e].confirmedCount > events[e].attendedCount
        /\ events[e].attendedCount > 0
        /\ sweepCount[e] = 1
        /\ releaseCount[e] = 1
        /\ events[e].forfeitPool = attendeeDepositAmount

\* C31: for every event attendedCount <= confirmedCount <= capacity,
\* confirmedCount is the number of its registrations that are Confirmed or
\* Attended, and attendedCount is the number that are Attended.
CounterConsistency ==
    \A e \in EventIds :
        LET evt == events[e]
            holding == {u \in Users : evt.registrations[u].status \in {"Confirmed", "Attended"}}
            attended == {u \in Users : evt.registrations[u].status = "Attended"}
        IN  /\ evt.attendedCount <= evt.confirmedCount
            /\ evt.confirmedCount <= evt.capacity
            /\ evt.confirmedCount = Cardinality(holding)
            /\ evt.attendedCount = Cardinality(attended)

\* a full event after a registration was canceled and the place taken again,
\* with one participant checked in and the other not
CounterConsistencyWitness ==
    \E e \in EventIds, u \in Users, v \in Users :
        /\ events[e].confirmedCount = events[e].capacity
        /\ events[e].capacity = 1
        /\ events[e].attendedCount = 1
        /\ events[e].registrations[u].status = "Attended"
        /\ events[e].registrations[v].status = "CanceledByParticipant"

\* C32: for every (event, identity) the claimable-payout query returns 0
\* whenever claimPayout would be rejected, returns exactly what an accepted
\* claimPayout credits, and returns 0 once the claim has been made.
QueryAgreesWithClaim ==
    [][\A e \in EventIds, u \in Users :
          /\ ~ClaimPayoutGuard(u, e) => GetClaimablePayoutView(e, u) = 0
          /\ (last'.op = "claimPayout" /\ last'.id = e /\ last'.caller = u) =>
                /\ balances'[u] = balances[u] + GetClaimablePayoutView(e, u)
                /\ last'.amount = GetClaimablePayoutView(e, u)
                /\ GetClaimablePayoutView(e, u)' = 0
                /\ ~ClaimPayoutGuard(u, e)']_vars

\* an attendee has just claimed deposit and reward and the query now answers 0
\* for them; a no-show of the same event may still claim, and the query
\* answers the 0 that this claim would credit
QueryAgreesWithClaimWitness ==
    \E e \in EventIds, u \in Users :
        /\ last.op = "claimPayout"
        /\ last.id = e
        /\ last.caller = u
        /\ last.amount > attendeeDepositAmount
        /\ events[e].registrations[u].status = "Attended"
        /\ GetClaimablePayoutView(e, u) = 0
        /\ \E v \in Users \ {u} :
              /\ events[e].registrations[v].status = "Confirmed"
              /\ ClaimPayoutGuard(v, e)
              /\ GetClaimablePayoutView(e, v) = 0

\* C33: every committed transition of the kinds creation, cancellation,
\* completion, check-in close, registration confirmed, registration canceled,
\* participant checked in, payout claimed and withdrawal emits exactly one
\* notification of its kind, carrying the event and identity concerned.
LifecycleNotifications ==
    [][LET Count(n) == Cardinality({i \in 1..Len(emitted') : emitted'[i] = n})
       IN  /\ nextEventId' # nextEventId =>
                 Count(Notice("EventCreated", nextEventId, events'[nextEventId].organizer, 0)) = 1
           /\ \A e \in EventIds :
                 /\ (events[e].status # "Canceled" /\ events'[e].status = "Canceled") =>
                       Count(Notice("EventCanceled", e, ZeroAddr, 0)) = 1
                 /\ (events[e].status # "Completed" /\ events'[e].status = "Completed") =>
                       Count(Notice("EventCompleted", e, ZeroAddr, 0)) = 1
                 /\ (~events[e].checkInClosed /\ events'[e].checkInClosed) =>
                       Count(Notice("CheckInClosed", e, ZeroAddr, 0)) = 1
                 /\ \A u \in Users :
                       LET reg == events[e].registrations[u]
                           regAfter == events'[e].registrations[u]
                       IN  /\ (reg.status = "None" /\ regAfter.status = "Confirmed") =>
                                 Count(Notice("RegistrationConfirmed", e, u, 0)) = 1
                           /\ (reg.status = "Confirmed"
                                  /\ regAfter.status = "CanceledByParticipant") =>
                                 Count(Notice("RegistrationCanceled", e, u, 0)) = 1
                           /\ (reg.status = "Confirmed" /\ regAfter.status = "Attended") =>
                                 Count(Notice("ParticipantCheckedIn", e, u, 0)) = 1
                           /\ (~events[e].rewardsClaimed[u] /\ events'[e].rewardsClaimed[u]) =>
                                 Count(Notice("RewardsClaimed", e, u,
                                              balances'[u] - balances[u])) = 1
           /\ \A u \in Users :
                 tokenBalance'[u] > tokenBalance[u] =>
                     Count(Notice("Withdrawal", 0, u, tokenBalance'[u] - tokenBalance[u])) = 1]_vars

\* C34: cancelEvent, closeCheckIn, completeEvent, registerForEvent,
\* cancelRegistration, checkIn and claimPayout on an event id that createEvent
\* has not yet assigned are rejected for every caller and clock value, and the
\* slot of such an id is never written.
NeverCreatedRejected ==
    [][\A e \in EventIds :
          e >= nextEventId =>
              /\ \A c \in Users :
                    /\ ~CancelEventGuard(c, e)
                    /\ ~CloseCheckInGuard(c, e)
                    /\ ~CompleteEventGuard(c, e)
                    /\ ~RegisterForEventGuard(c, e)
                    /\ ~CancelRegistrationGuard(c, e)
                    /\ ~ClaimPayoutGuard(c, e)
                    /\ \A p \in Users : ~CheckInGuard(c, e, p)
              /\ e >= nextEventId' =>
                    /\ events'[e] = events[e]
                    /\ last'.id = e => balances' = balances]_vars

\* C35: for every created event bondReleased is true if and only if the
\* status is Canceled or Completed.
BondReleasedTracksStatus ==
    \A e \in EventIds :
        e < nextEventId =>
            (events[e].bondReleased <=> events[e].status \in {"Canceled", "Completed"})

\* C36: for every Canceled event the rewards still claimable on it, over all
\* identities with a registration record (claimable payout minus the deposit),
\* add up to at most the event's forfeitPool.
CanceledRewardsWithinPool ==
    \A e \in EventIds :
        events[e].status = "Canceled" =>
            LET reward == [u \in Users |->
                              IF GetClaimablePayout(e, u) > 0
                                THEN GetClaimablePayout(e, u) - attendeeDepositAmount
                                ELSE 0]
            IN  SumOver({u \in Users : events[e].registrations[u].exists}, reward)
                  <= events[e].forfeitPool

\* C37: with the deposit amount constant, the forfeitPool of a Published
\* event never exceeds the deposit times the number of its registrations that
\* are Confirmed or CanceledByParticipant.
NoDoubleForfeit ==
    \A e \in EventIds :
        (Created(e) /\ events[e].status = "Published") =>
            events[e].forfeitPool <=
                attendeeDepositAmount *
                    Cardinality({u \in Users : events[e].registrations[u].status
                                                  \in {"Confirmed", "CanceledByParticipant"}})

\* C38: whichever of closeCheckIn and completeEvent performs it and whoever
\* calls, check-in is closed and the deposits of the Confirmed registrants are
\* swept into the forfeit pool only in a state where now >= endTime.
NoShowsOnlyAfterEnd ==
    [][\A e \in EventIds :
          (Created(e) /\ ~events[e].checkInClosed /\ events'[e].checkInClosed) =>
              now >= events[e].endTime]_vars

\* C39: a setAttendeeDepositAmount or setOrganizerBondAmount call made after
\* a registration or an event creation does not change what that registration
\* or event pays out: the refund of cancelRegistration, the sweep of
\* closeCheckIn and completeEvent, the bond refund of cancelEvent and the
\* claimable payout are the same before and after the call.
LockedAmountsFixed ==
    [][last'.op \in {"setAttendeeDepositAmount", "setOrganizerBondAmount"} =>
          \A e \in EventIds :
              Created(e) =>
                  /\ \A u \in Users :
                        GetClaimablePayout(e, u)' = GetClaimablePayout(e, u)
                  /\ (events[e].status = "Published" /\ ~events[e].bondReleased) =>
                        /\ CalculateRefund(events[e], organizerBondAmount)'
                              = CalculateRefund(events[e], organizerBondAmount)
                        /\ events[e].confirmedCount > 0 =>
                              CalculateRefund(events[e], attendeeDepositAmount)'
                                = CalculateRefund(events[e], attendeeDepositAmount)
                        /\ ~events[e].checkInClosed =>
                              ProcessNoShowForfeits(events[e])'
                                = ProcessNoShowForfeits(events[e])]_vars

\* C40: the client reports canClaimPayout whenever the event is Completed or
\* Canceled and the user holds an unclaimed registration with a non-zero
\* claimable payout, in particular for an Attended registration on a
\* Completed event.
ClaimGatingMatchesEngine ==
    \A e \in EventIds, u \in Users :
        (/\ events[e].status \in {"Completed", "Canceled"}
         /\ events[e].registrations[u].exists
         /\ ~events[e].rewardsClaimed[u]
         /\ GetClaimablePayoutView(e, u) > 0) => CanClaimPayout(e, u)

====
